---- MODULE Spec2Model ----
(***************************************************************************)
(* react-async-comp: the keyed cache / revalidation engine of             *)
(* src/src/cache.ts together with src/src/listenable.ts and               *)
(* src/src/effect.ts.                                                      *)
(*                                                                         *)
(* JavaScript runs one handler at a time.  Every action below is one       *)
(* handler (a call made by a consumer, a timer, a store change, the        *)
(* settlement of a loader's promise) executed to completion, including     *)
(* all the listeners it fires re-entrantly and the promise reactions       *)
(* (microtasks) it leaves behind.  The handlers are written as operators   *)
(* over a record `s` holding the whole heap.                               *)
(***************************************************************************)
EXTENDS Integers, Sequences, FiniteSets, TLC

\* ------------------------------------------------------------------ bounds
MaxEntries == 3
MaxPromises == 3
MaxSets == 2
MaxStoreSets == 2
NConsumers == 1
MaxSteps == 4

\* ------------------------------------------------------------ JS values
\* data / error values are integers; negative ones stand for the
\* non-numeric values the code can produce
Undef == 0 - 1
NaN == 0 - 2
ErrLoader == 0 - 3
ErrReducer == 0 - 4

Loaders == 1..2
Consumers == 1..NConsumers
StoreValues == 0..2
Tags == {"r1", "r2", "r"}
Reducers == {"inc", "dbl", "same", "throw"}

\* ------------------------------------------------------------ getKey
\* A JS value: t is the type tag, n a number, s a string, kids the members
\* of an array (k = "") or the own properties of a plain object in
\* insertion order.
Val(t, n, s, kids) == [t |-> t, n |-> n, s |-> s, kids |-> kids]
VUndef == Val("undef", 0, "", <<>>)
VNull == Val("null", 0, "", <<>>)
VNaN == Val("nan", 0, "", <<>>)
VNum(n) == Val("num", n, "", <<>>)
VStr(str) == Val("str", 0, str, <<>>)
VArr(vs) == Val("arr", 0, "", [i \in 1..Len(vs) |-> [k |-> "", v |-> vs[i]]])
VObj(kvs) == Val("obj", 0, "", kvs)
VInst == Val("inst", 0, "", <<>>)
KV(k, v) == [k |-> k, v |-> v]

\* an isNil that lets undefined through
isNilNotUndefined(value) == value.t \in {"null", "nan"}
\* value === null || typeof value === "undefined" || isNaN(value)
isNil(value) == value.t \in {"null", "undef", "nan"}

\* position of a property name in the order Array.prototype.sort uses
KeyRank(k) == CASE k = "a" -> 1 [] k = "b" -> 2 [] k = "c" -> 3 [] OTHER -> 4

RECURSIVE InsertSorted(_, _)
InsertSorted(kv, sorted) ==
  IF sorted = <<>> THEN <<kv>>
  ELSE IF KeyRank(kv.k) < KeyRank(Head(sorted).k)
       THEN <<kv>> \o sorted
       ELSE <<Head(sorted)>> \o InsertSorted(kv, Tail(sorted))

RECURSIVE SortKeys(_)
SortKeys(kvs) ==
  IF kvs = <<>> THEN <<>> ELSE InsertSorted(Head(kvs), SortKeys(Tail(kvs)))

RECURSIVE FilterNotNil(_)
FilterNotNil(kvs) ==
  IF kvs = <<>> THEN <<>>
  ELSE (IF isNil(Head(kvs).v) THEN <<>> ELSE <<Head(kvs)>>) \o FilterNotNil(Tail(kvs))

RECURSIVE Join(_)
Join(parts) ==
  IF parts = <<>> THEN <<>>
  ELSE IF Len(parts) = 1 THEN parts[1]
  ELSE parts[1] \o <<",">> \o Join(Tail(parts))

RECURSIVE DropEmpty(_)
DropEmpty(parts) ==
  IF parts = <<>> THEN <<>>
  ELSE (IF Head(parts) = <<>> THEN <<>> ELSE <<Head(parts)>>) \o DropEmpty(Tail(parts))

\* the key is a string; it is modelled as the sequence of its lexical pieces
RECURSIVE serialize(_)
serialize(value) ==
  CASE value.t = "undef" -> <<"#U">>
    [] value.t = "null" -> <<"#N">>
    [] value.t = "str" /\ value.s = "" -> <<"#E">>
    [] value.t = "nan" -> <<"NaN">>
    [] value.t = "num" -> <<ToString(value.n)>>
    [] value.t = "str" -> <<"\"", value.s, "\"">>
    [] value.t = "arr" ->
         Join([i \in 1..Len(value.kids) |-> serialize(value.kids[i].v)])
    [] value.t = "obj" ->
         LET sortedKeys == SortKeys(FilterNotNil(value.kids))
             strs == [i \in 1..Len(sortedKeys) |->
                        LET valueStr == serialize(sortedKeys[i].v)
                        IN IF valueStr = <<>> THEN <<>>
                           ELSE <<"\"", sortedKeys[i].k, "\"", ":">> \o valueStr]
             pairs == DropEmpty(strs)
         IN IF pairs = <<>> THEN <<>> ELSE <<"{">> \o Join(pairs) \o <<"}">>
    [] OTHER -> <<"#I">>

getKey(props) == serialize(IF props.t = "undef" THEN VObj(<<>>) ELSE props)

\* the inputs the consumers of the model pass to the loaders
Props == << VObj(<<>>), VObj(<<KV("a", VUndef)>>), VObj(<<KV("a", VNum(1))>>) >>
PropIds == 1..Len(Props)


\* ------------------------------------------------------------ loaders
\* What a loader function does when create() calls it: the use() calls it
\* makes, the props for which it calls context.revalidate(), and what it
\* returns.
Use(u, eq, m, tags, dep, props) ==
  [u |-> u, eq |-> eq, m |-> m, tags |-> tags, dep |-> dep, props |-> props]
UseStore(eq) == Use("store", eq, "", <<>>, 0, 0)
UseTag(m, tags) == Use("tag", "", m, tags, 0, 0)
UseCache(dep, props) == Use("cache", "", "", <<>>, dep, props)
UseEmit == Use("emit", "", "", <<>>, 0, 0)

Def(async, val, throws, selfRev, uses, dispose) ==
  [async |-> async, val |-> val, throws |-> throws, selfRev |-> selfRev,
   uses |-> uses, dispose |-> dispose]

Worlds == {"plain", "store", "tags", "tagforms", "dep", "depslow", "depsync", "mutual", "reentrant",
           "failing", "emitting"}

LoaderDef(w, l) ==
  CASE w = "plain" ->
         IF l = 1 THEN Def(TRUE, "count", FALSE, {}, <<>>, "unused")
                  ELSE Def(FALSE, "count", FALSE, {}, <<>>, "never")
    [] w = "store" ->
         IF l = 1 THEN Def(FALSE, "store", FALSE, {}, <<UseStore("is")>>, "unused")
                  ELSE Def(TRUE, "store", FALSE, {}, <<UseStore("parity")>>, "never")
    [] w = "tags" ->
         IF l = 1 THEN Def(FALSE, "count", FALSE, {}, <<UseTag("list", <<"r1", "r">>)>>, "unused")
                  ELSE Def(FALSE, "count", FALSE, {}, <<UseTag("list", <<"r2", "r">>)>>, "unused")
    [] w = "tagforms" ->
         IF l = 1 THEN Def(FALSE, "count", FALSE, {}, <<UseTag("exact", <<"r1">>)>>, "unused")
                  ELSE Def(FALSE, "count", FALSE, {}, <<UseTag("pred", <<"r2", "r">>)>>, "never")
    [] w = "dep" ->
         IF l = 1 THEN Def(FALSE, "count", FALSE, {}, <<>>, "unused")
                  ELSE Def(TRUE, "dep", FALSE, {}, <<UseCache(1, 1)>>, "unused")
    [] w = "depslow" ->
         IF l = 1 THEN Def(FALSE, "count", FALSE, {}, <<>>, "never")
                  ELSE Def(TRUE, "depslow", FALSE, {}, <<UseCache(1, 1)>>, "never")
    [] w = "depsync" ->
         IF l = 1 THEN Def(FALSE, "count", FALSE, {}, <<>>, "unused")
                  ELSE Def(FALSE, "count", FALSE, {}, <<UseCache(1, 1)>>, "unused")
    [] w = "mutual" ->
         IF l = 1 THEN Def(TRUE, "late", FALSE, {}, <<UseCache(2, 1)>>, "unused")
                  ELSE Def(TRUE, "late", FALSE, {}, <<UseCache(1, 1), UseCache(1, 1)>>, "unused")
    [] w = "emitting" ->
         IF l = 1 THEN Def(FALSE, "store", FALSE, {}, <<UseEmit, UseStore("is")>>, "unused")
                  ELSE Def(TRUE, "store", FALSE, {}, <<UseStore("is"), UseEmit>>, "unused")
    [] w = "failing" ->
         IF l = 1 THEN Def(FALSE, "count", TRUE, {}, <<>>, "unused")
                  ELSE Def(TRUE, "count", FALSE, {}, <<>>, "unused")
    [] OTHER ->
         IF l = 1 THEN Def(FALSE, "count", FALSE, {3}, <<>>, "unused")
                  ELSE Def(FALSE, "count", FALSE, {}, <<UseEmit>>, "unused")

UsesKind(w, u) ==
  \E l \in Loaders : \E i \in 1..Len(LoaderDef(w, l).uses) : LoaderDef(w, l).uses[i].u = u

\* ------------------------------------------------------------ heap records
H(h, v) == [h |-> h, v |-> v]
NoResult == H("none", 0)

Lis(k, e, i, cur) == [k |-> k, e |-> e, i |-> i, cur |-> cur]
Cleanup(k, t, lis) == [k |-> k, t |-> t, lis |-> lis]
Eff(i, cur) == [i |-> i, cur |-> cur]
Rx(r, e, p, f) == [r |-> r, e |-> e, p |-> p, f |-> f]
Job(rx, st, v) == [rx |-> rx, st |-> st, v |-> v]
Promise(root, fv) == [st |-> "pending", v |-> Undef, rx |-> <<>>, root |-> root, fv |-> fv]
Ev(ev, a, b) == [ev |-> ev, a |-> a, b |-> b]

NewEntry(l, p, propsKey, dw) ==
  [loader |-> l, props |-> p, key |-> propsKey, disposeWhen |-> dw,
   data |-> Undef, error |-> Undef, result |-> NoResult, loading |-> FALSE,
   removed |-> FALSE, timer |-> FALSE,
   onReady |-> <<>>, onCleanup |-> <<>>, onChange |-> <<>>,
   \* history of the entry, read by the properties only
   p0 |-> 0, v0 |-> Undef, snap |-> Undef, reads |-> 0, sets |-> <<>>, inserted |-> FALSE,
   byTimer |-> FALSE, busCleared |-> FALSE, acts |-> 0]

Log(s, ev, a, b) == [s EXCEPT !.log = Append(@, Ev(ev, a, b))]

Range(seq) == {seq[i] : i \in 1..Len(seq)}
Without(seq, x) == SelectSeq(seq, LAMBDA y : y # x)
\* Set.prototype.add: an element already present keeps its place
AddLis(seq, x) == IF x \in Range(seq) THEN seq ELSE Append(seq, x)

\* ------------------------------------------------------------ Map (a group)
\* a Map<string, Cache> in insertion order
MapGet(m, key) ==
  IF \E i \in 1..Len(m) : m[i].k = key
  THEN (CHOOSE x \in Range(m) : x.k = key).e
  ELSE 0
MapDelete(m, key) == SelectSeq(m, LAMBDA x : x.k # key)
MapSet(m, key, e) ==
  IF \E i \in 1..Len(m) : m[i].k = key
  THEN [i \in 1..Len(m) |-> IF m[i].k = key THEN [k |-> key, e |-> e] ELSE m[i]]
  ELSE Append(m, [k |-> key, e |-> e])

\* getKey(props) for a props object whose key is in cachedKeys; the props
\* objects of the model are frozen and named by their index in Props
cachedKey(s, p) == s.cachedKeys[p]

getCache(s, l) ==
  IF s.allCache[l] # 0 THEN [s |-> s, g |-> s.allCache[l]]
  ELSE LET g == Len(s.heap) + 1
       IN [s |-> [s EXCEPT !.heap = Append(@, <<>>), !.allCache[l] = g], g |-> g]

\* ------------------------------------------------------------ small decisions
\* a comparison that finds every value new
ChangedAlways(old, value) == TRUE
\* data !== value
Changed(old, value) == old # value \/ value = NaN
\* a settlement handler without the r !== result guard
NeverSuperseded(r, result) == FALSE
\* if (r !== result) return
Superseded(r, result) == result # H("p", r)
\* a store listener that ignores the equality passed to use(store, equal)
StoreEqualIdentity(eq, next, current) == next = current
\* the equality passed to use(store, equal); Object.is by default
StoreEqual(eq, next, current) ==
  IF eq = "parity" THEN next % 2 = current % 2 ELSE next = current
\* matcher(tags[0]) in place of tags.some(matcher)
TagMatchFirst(u, tags) ==
  CASE u.m = "exact" -> tags[1] = u.tags[1]
    [] OTHER -> tags[1] \in Range(u.tags)
\* tags.some(matcher)
TagMatch(u, tags) ==
  \E j \in 1..Len(tags) :
    CASE u.m = "exact" -> tags[j] = u.tags[1]
      [] u.m = "list" -> tags[j] \in Range(u.tags)
      [] OTHER -> tags[j] \in Range(u.tags)
\* onUnsubscribe: disposeWhen === "unused" && !onChange.size
ArmOnUnsubscribe(disposeWhen, size) == disposeWhen = "unused" /\ size = 0
\* a handleReady that arms the timer under every policy
ArmOnReadyAlways(disposeWhen) == TRUE
\* handleReady: disposeWhen === "unused"
ArmOnReady(disposeWhen) == disposeWhen = "unused"

\* a loader call whose exception is not told from a returned value
ResultTypeNoCatch(d) == IF d.async THEN "promise" ELSE "data"
\* try { setResult("promise" | "data", loader(...)) } catch { setResult("error", ...) }
ResultType(d) ==
  CASE d.throws -> "error"
    [] d.async -> "promise"
    [] OTHER -> "data"

applyReducer(f, v) ==
  CASE f = "inc" -> [st |-> "ok", v |-> IF v < 0 THEN NaN ELSE v + 1]
    [] f = "dbl" -> [st |-> "ok", v |-> IF v < 0 THEN NaN ELSE 2 * v]
    [] f = "same" -> [st |-> "ok", v |-> v]
    [] OTHER -> [st |-> "err", v |-> ErrReducer]

\* ------------------------------------------------------------ promises
then(s, h, rx) ==
  CASE h.h = "val" -> [s EXCEPT !.jobs = Append(@, Job(rx, "ok", h.v))]
    [] h.h = "err" -> [s EXCEPT !.jobs = Append(@, Job(rx, "err", h.v))]
    [] h.h = "p" ->
         IF s.promises[h.v].st = "pending"
         THEN [s EXCEPT !.promises[h.v].rx = Append(@, rx)]
         ELSE [s EXCEPT !.jobs = Append(@, Job(rx, s.promises[h.v].st, s.promises[h.v].v))]
    [] OTHER -> s

settle(s, p, st, v) ==
  LET rxs == s.promises[p].rx
  IN [s EXCEPT !.promises[p].st = st, !.promises[p].v = v, !.promises[p].rx = <<>>,
               !.jobs = @ \o [i \in 1..Len(rxs) |-> Job(rxs[i], st, v)]]

\* ------------------------------------------------------------ the entry
\* the function returned by onChange.subscribe, called while still active
onChangeUnsubscribe(s, e, lis) ==
  LET left == Without(s.entries[e].onChange, lis)
  IN [s EXCEPT !.entries[e].onChange = left,
               !.entries[e].timer =
                  IF ArmOnUnsubscribe(s.entries[e].disposeWhen, Len(left)) THEN TRUE ELSE @]

\* an onChange.subscribe(listener) whose onSubscribe leaves the timer alone
onUpdateKeepTimer(s, e, lis) ==
  [s EXCEPT !.entries[e].onChange = AddLis(@, lis)]

\* onChange.subscribe(listener): onSubscribe clears the timer; the log tells
\* when the timer it cleared was armed
onUpdate(s, e, lis) ==
  [s EXCEPT !.entries[e].timer = FALSE,
            !.entries[e].onChange = AddLis(@, lis),
            !.log = IF s.entries[e].timer THEN Append(@, Ev("cancel", e, 0)) ELSE @]

runCleanup(s, c) ==
  CASE c.k = "store" -> [s EXCEPT !.storeSubs = Without(@, c.lis)]
    [] c.k = "tag" -> [s EXCEPT !.globalEffects = Without(@, c.lis)]
    [] OTHER -> onChangeUnsubscribe(s, c.t, c.lis)

RECURSIVE runCleanups(_, _)
runCleanups(s, cs) ==
  IF cs = <<>> THEN s ELSE runCleanups(runCleanup(s, Head(cs)), Tail(cs))

\* a remove() that deletes whatever item its key maps to
removeByKey(s, e) ==
  IF s.entries[e].removed THEN s
  ELSE LET en == s.entries[e]
           g == s.allCache[en.loader]
           left == IF g # 0 THEN MapDelete(s.heap[g], en.key) ELSE <<>>
       IN runCleanups(
            [s EXCEPT !.entries[e].removed = TRUE,
                      !.heap = IF g = 0 THEN @ ELSE [@ EXCEPT ![g] = left],
                      !.allCache[en.loader] = IF g = 0 \/ left = <<>> THEN 0 ELSE g,
                      !.entries[e].onReady = <<>>,
                      !.entries[e].onCleanup = <<>>,
                      !.log = Append(@, Ev("remove", e, 1))],
            en.onCleanup)

\* a remove() that drops the whole group of its loader
removeGroup(s, e) ==
  IF s.entries[e].removed THEN s
  ELSE runCleanups(
         [s EXCEPT !.entries[e].removed = TRUE,
                   !.allCache[s.entries[e].loader] = 0,
                   !.entries[e].onReady = <<>>,
                   !.entries[e].onCleanup = <<>>,
                   !.log = Append(@, Ev("remove", e, 1))],
         s.entries[e].onCleanup)

\* a remove() that does not look at the removed flag
removeAgain(s, e) ==
  LET en == s.entries[e]
      g == s.allCache[en.loader]
      mine == g # 0 /\ MapGet(s.heap[g], en.key) = e
      left == IF mine THEN MapDelete(s.heap[g], en.key) ELSE s.heap[g]
  IN runCleanups(
       [s EXCEPT !.entries[e].removed = TRUE,
                 !.heap = IF g = 0 THEN @ ELSE [@ EXCEPT ![g] = left],
                 !.allCache[en.loader] = IF g = 0 \/ left = <<>> THEN 0 ELSE g,
                 !.entries[e].onReady = <<>>,
                 !.entries[e].onCleanup = <<>>,
                 !.log = Append(@, Ev("remove", e, IF mine THEN 1 ELSE 0))],
       en.onCleanup)

\* a remove() that leaves the item in its group
removeKeep(s, e) ==
  IF s.entries[e].removed THEN s
  ELSE runCleanups(
         [s EXCEPT !.entries[e].removed = TRUE,
                   !.entries[e].onReady = <<>>,
                   !.entries[e].onCleanup = <<>>,
                   !.log = Append(@, Ev("remove", e, 0))],
         s.entries[e].onCleanup)

remove(s, e) ==
  IF s.entries[e].removed THEN s
  ELSE LET en == s.entries[e]
           g == s.allCache[en.loader]
           mine == g # 0 /\ MapGet(s.heap[g], en.key) = e
           left == IF mine THEN MapDelete(s.heap[g], en.key) ELSE s.heap[g]
       IN runCleanups(
            [s EXCEPT !.entries[e].removed = TRUE,
                      !.heap = IF g = 0 THEN @ ELSE [@ EXCEPT ![g] = left],
                      !.allCache[en.loader] = IF g = 0 \/ left = <<>> THEN 0 ELSE g,
                      !.entries[e].onReady = <<>>,
                      !.entries[e].onCleanup = <<>>,
                      !.log = Append(@, Ev("remove", e, IF mine THEN 1 ELSE 0))],
            en.onCleanup)

RECURSIVE revalidate(_, _)
RECURSIVE tryCreate(_, _, _, _)
RECURSIVE fireAll(_, _, _)
RECURSIVE notifyChange(_, _, _)
RECURSIVE activateAll(_, _, _)
RECURSIVE runUses(_, _, _, _)
RECURSIVE fireChange(_, _, _, _)
RECURSIVE activate(_, _, _)
RECURSIVE onReadyNotifyAndClear(_, _)
RECURSIVE setResult(_, _, _, _)
RECURSIVE create(_, _, _, _)

\* the listener the i-th use() of entry e subscribed, as one number
ListenerId(lis) == 10 * lis.e + lis.i

\* one change-listener of entry src is called: a component that re-renders
\* later ("ui"), a consumer that requests the same (loader, props) again at
\* once ("rereq"), or the listener use(cache) subscribed for entry lis.e;
\* ev tells the properties which notification called it
fireChange(s, src, lis, ev) ==
  CASE lis.k = "ui" -> Log(s, "fire", src, s.entries[src].data)
    [] lis.k = "rereq" ->
         LET en == s.entries[src]
             got(r) == Log(r.s, ev, src, r.ret)
         IN got(tryCreate(s, en.loader, en.props, s.loaders[en.loader].dispose))
    [] OTHER -> revalidate(Log(s, "listener", src, ListenerId(lis)), lis.e)

\* onChange.notifyAndClear(): the copy taken before the set was cleared
fireAll(s, src, copy) ==
  IF copy = <<>> THEN s
  ELSE fireAll(fireChange(s, src, Head(copy), "gotOnRevalidate"), src, Tail(copy))

\* onChange.notify(): Set.prototype.forEach over the live set
notifyChange(s, e, done) ==
  LET pend == SelectSeq(s.entries[e].onChange, LAMBDA x : x \notin done)
  IN IF pend = <<>> THEN s
     ELSE notifyChange(fireChange(s, e, pend[1], "gotOnChange"), e, done \cup {pend[1]})

\* a revalidate() whose remove() does not look at the removed flag
revalidateAgain(s, e) ==
  fireAll([removeAgain(Log(s, "revalidate", e, 0), e) EXCEPT !.entries[e].onChange = <<>>],
          e, removeAgain(Log(s, "revalidate", e, 0), e).entries[e].onChange)

revalidate(s, e) ==
  LET notifyAndClear(s1) ==
        fireAll([s1 EXCEPT !.entries[e].onChange = <<>>], e, s1.entries[e].onChange)
  IN notifyAndClear(remove(Log(s, "revalidate", e, 0), e))

\* the wrapper enqueue() subscribes to onReady: run the effect, keep its cleanup
activate(s, e, eff) ==
  LET u == s.loaders[s.entries[e].loader].uses[eff.i]
      lis == Lis(u.u, e, eff.i, IF u.u = "store" THEN eff.cur ELSE Undef)
      listen(r) ==
        LET variant == MapGet(r.s.heap[r.g], cachedKey(r.s, u.props))
        IN IF variant = 0 THEN r.s
           ELSE [onUpdate(r.s, variant, lis) EXCEPT
                   !.entries[e].onCleanup = Append(@, Cleanup("cache", variant, lis))]
  IN CASE u.u = "store" ->
            [s EXCEPT !.storeSubs = AddLis(@, lis),
                      !.entries[e].onCleanup = Append(@, Cleanup("store", 0, lis))]
       [] u.u = "tag" ->
            [s EXCEPT !.globalEffects = AddLis(@, lis),
                      !.entries[e].onCleanup = Append(@, Cleanup("tag", 0, lis))]
       [] u.u = "cache" -> listen(getCache(s, u.dep))
       [] OTHER -> revalidate(s, e)

\* acts counts the effects of e that have been run
activateAll(s, e, copy) ==
  IF copy = <<>> THEN s
  ELSE activateAll(activate([s EXCEPT !.entries[e].acts = @ + 1], e, Head(copy)),
                   e, Tail(copy))

\* an onReady.notify() in place of notifyAndClear(): the listeners stay
onReadyNotifyKeep(s, e) == activateAll(s, e, s.entries[e].onReady)

\* onReady.notifyAndClear()
onReadyNotifyAndClear(s, e) ==
  activateAll([s EXCEPT !.entries[e].onReady = <<>>], e, s.entries[e].onReady)

setResult(s, e, type, value) ==
  LET en == s.entries[e]
      isReady == en.result # NoResult
      changed == CASE type = "data" -> Changed(en.data, value)
                   [] type = "error" -> Changed(en.error, value)
                   [] OTHER -> TRUE
      notify(s2) == IF isReady /\ changed THEN notifyChange(s2, e, {}) ELSE s2
  IN CASE type = "data" ->
            notify(onReadyNotifyAndClear(
                     [s EXCEPT !.entries[e].timer = FALSE,
                               !.entries[e].result = H("val", value),
                               !.entries[e].data = value], e))
       [] type = "error" ->
            notify(onReadyNotifyAndClear(
                     [s EXCEPT !.entries[e].timer = FALSE,
                               !.entries[e].result = H("err", en.error),
                               !.entries[e].error = value], e))
       [] OTHER ->
            notify(then([s EXCEPT !.entries[e].timer = FALSE,
                                  !.entries[e].result = H("p", value),
                                  !.entries[e].loading = TRUE,
                                  !.entries[e].data = Undef],
                        H("p", value), Rx("entry", e, value, "")))

\* a handleReady that does not notify onReady
handleReadyNoNotify(s, e) ==
  [s EXCEPT !.entries[e].timer = ArmOnReady(s.entries[e].disposeWhen)]

handleReady(s, e) ==
  onReadyNotifyAndClear(
    [s EXCEPT !.entries[e].timer = ArmOnReady(s.entries[e].disposeWhen)], e)

\* a set() that applies the reducer at once, whether or not the entry is loading
setValueSync(s, e, isFn, f, value) ==
  LET en == s.entries[e]
      s0 == [s EXCEPT !.entries[e].sets =
                Append(@, [f |-> IF isFn THEN f ELSE "plain", pending |-> en.loading])]
      out == applyReducer(f, en.data)
  IN CASE isFn /\ out.st = "ok" -> setResult(s0, e, "data", out.v)
       [] isFn -> setResult(s0, e, "error", out.v)
       [] OTHER -> setResult(s0, e, "data", value)

\* a set() without the try / catch around the reducer call: the exception
\* leaves set() before anything is assigned
setValueNoCatch(s, e, isFn, f, value) ==
  LET en == s.entries[e]
      s0 == [s EXCEPT !.entries[e].sets =
                Append(@, [f |-> IF isFn THEN f ELSE "plain", pending |-> en.loading])]
      np == Len(s.promises) + 1
      out == applyReducer(f, en.data)
  IN CASE isFn /\ en.loading ->
            setResult(then([s0 EXCEPT !.promises = Append(@, Promise(FALSE, Undef))],
                           en.result, Rx("chain", 0, np, f)),
                      e, "promise", np)
       [] isFn /\ out.st = "ok" -> setResult(s0, e, "data", out.v)
       [] isFn -> s0
       [] OTHER -> setResult(s0, e, "data", value)

\* cache.set(value)
setValue(s, e, isFn, f, value) ==
  LET en == s.entries[e]
      s0 == [s EXCEPT !.entries[e].sets =
                Append(@, [f |-> IF isFn THEN f ELSE "plain", pending |-> en.loading])]
      np == Len(s.promises) + 1
      out == applyReducer(f, en.data)
  IN CASE isFn /\ en.loading ->
            setResult(then([s0 EXCEPT !.promises = Append(@, Promise(FALSE, Undef))],
                           en.result, Rx("chain", 0, np, f)),
                      e, "promise", np)
       [] isFn /\ out.st = "ok" -> setResult(s0, e, "data", out.v)
       [] isFn -> setResult(s0, e, "error", out.v)
       [] OTHER -> setResult(s0, e, "data", value)

\* the use() calls of the loader, in order; res carries what they return
runUses(s, e, i, res) ==
  LET uses == s.loaders[s.entries[e].loader].uses
      enqueue(r, u) ==
        runUses([r.s EXCEPT !.entries[e].onReady =
                    Append(@, Eff(i, IF u.u = "store" THEN r.s.storeState ELSE Undef))],
                e, i + 1,
                CASE u.u = "store" -> [res EXCEPT !.cur = r.s.storeState]
                  [] u.u = "cache" ->
                       [res EXCEPT !.h = r.s.entries[r.ret].result, !.dep = r.ret]
                  [] OTHER -> res)
  IN IF i > Len(uses) THEN [s |-> s, cur |-> res.cur, h |-> res.h, dep |-> res.dep]
     ELSE enqueue(IF uses[i].u = "cache"
                  THEN tryCreate(s, uses[i].dep, uses[i].props, "unused")
                  ELSE [s |-> s, ret |-> 0],
                  uses[i])

create(s, l, p, dw) ==
  LET e == Len(s.entries) + 1
      d == s.loaders[l]
      calls == s.loaderCalls[l] + 1
      type == ResultType(d)
      returned(s3, value, h) ==
        LET np == Len(s3.promises) + 1
        IN CASE type = "error" -> setResult(s3, e, "error", ErrLoader)
             [] type = "data" -> setResult(s3, e, "data", value)
             [] d.val = "dep" ->
                  setResult(then([s3 EXCEPT !.promises = Append(@, Promise(FALSE, Undef)),
                                            !.entries[e].p0 = np],
                                 h, Rx("chain", 0, np, "dbl")),
                            e, "promise", np)
             [] OTHER ->
                  setResult([s3 EXCEPT !.promises = Append(@, Promise(TRUE, value)),
                                       !.entries[e].p0 = np],
                            e, "promise", np)
      called(r) ==
        LET value == CASE d.val = "store" -> r.cur
                       [] d.val = "depslow" -> applyReducer("dbl", r.s.entries[r.dep].data).v
                       [] OTHER -> calls
            s2 == [r.s EXCEPT !.entries[e].snap = r.cur, !.entries[e].reads = r.dep,
                              !.entries[e].v0 = value]
        IN returned(IF p \in d.selfRev THEN revalidate(s2, e) ELSE s2, value, r.h)
      \* a "late" loader awaits before it calls use()
      uses(s1) ==
        IF d.val = "late" THEN [s |-> s1, cur |-> Undef, h |-> NoResult, dep |-> 0]
        ELSE runUses(s1, e, 1, [cur |-> Undef, h |-> NoResult, dep |-> 0])
  IN [ret |-> e,
      s |-> called(uses(Log([s EXCEPT !.entries = Append(@, NewEntry(l, p, cachedKey(s, p), dw)),
                                      !.loaderCalls[l] = calls], "load", e, l)))]

\* what a "late" loader awaited has arrived: it calls use() and returns, so
\* that its promise p is fulfilled next
lateUses(s, p) ==
  LET es == {e \in 1..Len(s.entries) :
               s.entries[e].p0 = p /\ s.loaders[s.entries[e].loader].val = "late"}
      done(e, r) == [r.s EXCEPT !.entries[e].reads = r.dep]
      run(e) == done(e, runUses(s, e, 1, [cur |-> Undef, h |-> NoResult, dep |-> 0]))
  IN IF es = {} THEN s ELSE run(CHOOSE e \in es : TRUE)

\* group.get(key) that never finds the item
LookupMiss(group, key) == 0

\* group.get(key)
Lookup(group, key) == MapGet(group, key)

tryCreate(s, l, p, dw) ==
  LET key == cachedKey(s, p)
      set(g, c) ==
        [s |-> [c.s EXCEPT !.heap[g] = MapSet(@, key, c.ret),
                           !.entries[c.ret].inserted = (c.s.allCache[l] = g)],
         ret |-> c.ret]
      get(r, item) ==
        IF item # 0 THEN [s |-> r.s, ret |-> item]
        ELSE set(r.g, create(r.s, l, p, dw))
      group(r) == get(r, Lookup(r.s.heap[r.g], key))
  IN group(getCache(s, l))

getCacheVariant(s, l, p) ==
  LET variant(r) == [s |-> r.s, ret |-> MapGet(r.s.heap[r.g], cachedKey(r.s, p))]
  IN variant(getCache(s, l))

\* ------------------------------------------------------------ microtasks
runJob(s, j) ==
  IF j.rx.r = "entry"
  THEN IF Superseded(j.rx.p, s.entries[j.rx.e].result) THEN s
       ELSE handleReady(IF j.st = "ok"
                        THEN [s EXCEPT !.entries[j.rx.e].data = j.v,
                                       !.entries[j.rx.e].loading = FALSE]
                        ELSE [s EXCEPT !.entries[j.rx.e].error = j.v,
                                       !.entries[j.rx.e].loading = FALSE], j.rx.e)
  ELSE LET out == IF j.st = "ok" THEN applyReducer(j.rx.f, j.v)
                  ELSE [st |-> "err", v |-> j.v]
       IN settle(s, j.rx.p, out.st, out.v)

RECURSIVE drain(_)
drain(s) ==
  IF s.jobs = <<>> THEN s
  ELSE drain(runJob([s EXCEPT !.jobs = Tail(@)], Head(s.jobs)))


\* the loaders of each world, and the keys of the props objects
LoaderTable == [w \in Worlds |-> [l \in Loaders |-> LoaderDef(w, l)]]
KeyTable == [p \in PropIds |-> getKey(Props[p])]

\* ------------------------------------------------------------ state
VARIABLES world, hasGroup, items, entries, promises, storeState, storeSubs,
          globalEffects, loaderCalls, subs, log, nsets, nstore, steps,
          keyProps, keyResult, lsn

vars == <<world, hasGroup, items, entries, promises, storeState, storeSubs,
          globalEffects, loaderCalls, subs, log, nsets, nstore, steps,
          keyProps, keyResult, lsn>>

\* the heap at the start of a handler; the first log event names the handler
Cur(op, a, b) ==
  [loaders |-> LoaderTable[world],
   cachedKeys |-> KeyTable,
   heap |-> [l \in Loaders |-> items[l]],
   allCache |-> [l \in Loaders |-> IF hasGroup[l] THEN l ELSE 0],
   entries |-> entries, promises |-> promises, jobs |-> <<>>,
   storeState |-> storeState, storeSubs |-> storeSubs,
   globalEffects |-> globalEffects, loaderCalls |-> loaderCalls,
   log |-> <<Ev(op, a, b)>>]

\* the handler has returned: its promise reactions run, and the groups no
\* longer referenced from allCache are garbage
Commit(s0) ==
  /\ steps < MaxSteps
  /\ \E s \in {drain(s0)} :
     /\ steps' = steps + 1
     /\ Len(s.entries) <= MaxEntries
     /\ Len(s.promises) <= MaxPromises
     /\ hasGroup' = [l \in Loaders |-> s.allCache[l] # 0]
     /\ items' = [l \in Loaders |->
                    IF s.allCache[l] # 0 THEN s.heap[s.allCache[l]] ELSE <<>>]
     /\ entries' = s.entries
     /\ promises' = s.promises
     /\ storeState' = s.storeState
     /\ storeSubs' = s.storeSubs
     /\ globalEffects' = s.globalEffects
     /\ loaderCalls' = s.loaderCalls
     /\ log' = s.log
     /\ world' = world
     /\ UNCHANGED <<keyProps, keyResult, lsn>>

EntryIds == 1..Len(entries)

InitHeap ==
  /\ world \in Worlds
  /\ hasGroup = [l \in Loaders |-> FALSE]
  /\ items = [l \in Loaders |-> <<>>]
  /\ entries = <<>>
  /\ promises = <<>>
  /\ storeState = 0
  /\ storeSubs = <<>>
  /\ globalEffects = <<>>
  /\ loaderCalls = [l \in Loaders |-> 0]
  /\ subs = [c \in Consumers |-> [e |-> 0, k |-> "ui"]]
  /\ log = <<>>
  /\ nsets = 0
  /\ nstore = 0
  /\ steps = 0

\* a listenable of its own, created with both hooks and never called
NewListenable ==
  [listeners |-> <<>>, handles |-> <<>>, onSubscribe |-> 0, onUnsubscribe |-> 0,
   called |-> <<>>, op |-> <<"createListenable", "">>]

\* no call of getKey and no listenable is observed on its own
Init ==
  /\ InitHeap
  /\ keyProps = <<>>
  /\ keyResult = <<>>
  /\ lsn = NewListenable

\* ------------------------------------------------------------ handlers
\* a view is rendered / loaded: tryCreate(loader, props, dispose)
ViewLoad(l, pid) ==
  /\ steps < MaxSteps
  /\ \E r \in {tryCreate(Cur("viewLoad", l, pid), l, pid,
                           LoaderDef(world, l).dispose)} :
        Commit(Log(r.s, "ret", r.ret, 0))
  /\ UNCHANGED <<subs, nsets, nstore>>

\* cache(loader).load(props)
CacheLoad(l, pid) ==
  /\ steps < MaxSteps
  /\ \E r \in {tryCreate(Cur("cacheLoad", l, pid), l, pid, "unused")} :
        Commit(Log(r.s, "ret", r.ret, 0))
  /\ UNCHANGED <<subs, nsets, nstore>>

\* cache(loader).get(props)
CacheGet(l, pid) ==
  /\ Commit(getCacheVariant(Cur("cacheGet", l, pid), l, pid).s)
  /\ UNCHANGED <<subs, nsets, nstore>>

\* the promise returned by an async loader settles
Settle(p, ok) ==
  /\ p \in 1..Len(promises)
  /\ promises[p].root
  /\ promises[p].st = "pending"
  /\ Commit(IF ok THEN settle(lateUses(Cur("settle", p, 1), p), p, "ok", promises[p].fv)
                  ELSE settle(Cur("settle", p, 0), p, "err", ErrLoader))
  /\ UNCHANGED <<subs, nsets, nstore>>

\* setTimeout(remove, ...) fires
TimerFire(e) ==
  /\ e \in EntryIds
  /\ entries[e].timer
  /\ Commit(remove([Cur("timer", e, 0) EXCEPT
                       !.entries[e].timer = FALSE,
                       !.entries[e].byTimer = ~entries[e].removed \/ @], e))
  /\ UNCHANGED <<subs, nsets, nstore>>

\* entry.onUpdate(listener) by a consumer holding the entry
Subscribe(c, e, k) ==
  /\ e \in EntryIds
  /\ subs[c].e = 0
  /\ Commit(onUpdate(Cur("subscribe", e, c), e, Lis(k, c, 0, Undef)))
  /\ subs' = [subs EXCEPT ![c] = [e |-> e, k |-> k]]
  /\ UNCHANGED <<nsets, nstore>>

\* the consumer calls the function onUpdate returned
Unsubscribe(c) ==
  /\ subs[c].e # 0
  /\ Commit(onChangeUnsubscribe(Cur("unsubscribe", subs[c].e, c), subs[c].e,
                                Lis(subs[c].k, c, 0, Undef)))
  /\ subs' = [subs EXCEPT ![c] = [e |-> 0, k |-> "ui"]]
  /\ UNCHANGED <<nsets, nstore>>

\* entry.set(value) / entry.set(reducer)
EntrySet(e, isFn, f, v) ==
  /\ e \in EntryIds
  /\ nsets < MaxSets
  /\ Commit(setValue(Cur("set", e, 0), e, isFn, f, v))
  /\ nsets' = nsets + 1
  /\ UNCHANGED <<subs, nstore>>

\* cache(loader).set(value, props)
CacheSet(l, pid, isFn, f, v) ==
  /\ steps < MaxSteps
  /\ nsets < MaxSets
  /\ \E r \in {getCacheVariant(Cur("cacheSet", l, pid), l, pid)} :
        Commit(IF r.ret = 0 THEN r.s ELSE setValue(r.s, r.ret, isFn, f, v))
  /\ nsets' = nsets + 1
  /\ UNCHANGED <<subs, nstore>>

EntryRevalidate(e) ==
  /\ e \in EntryIds
  /\ Commit(revalidate(Cur("entryRevalidate", e, 0), e))
  /\ UNCHANGED <<subs, nsets, nstore>>

EntryDispose(e) ==
  /\ e \in EntryIds
  /\ Commit(remove(Cur("entryDispose", e, 0), e))
  /\ UNCHANGED <<subs, nsets, nstore>>

\* Map.prototype.forEach over the live group
RECURSIVE forEachItem(_, _, _, _)
forEachItem(s, g, reval, done) ==
  LET pend == SelectSeq(s.heap[g], LAMBDA x : x \notin done)
  IN IF pend = <<>> THEN s
     ELSE forEachItem(IF reval THEN revalidate(s, pend[1].e) ELSE remove(s, pend[1].e),
                      g, reval, done \cup {pend[1]})

\* cache(loader).revalidate()
CacheRevalidate(l) ==
  /\ steps < MaxSteps
  /\ \E r \in {getCache(Cur("cacheRevalidate", l, 0), l)} :
        Commit(forEachItem(r.s, r.g, TRUE, {}))
  /\ UNCHANGED <<subs, nsets, nstore>>

\* cache(loader).clear()
CacheClear(l) ==
  /\ steps < MaxSteps
  /\ \E r \in {getCache(Cur("cacheClear", l, 0), l)} :
        Commit(forEachItem(r.s, r.g, FALSE, {}))
  /\ UNCHANGED <<subs, nsets, nstore>>

\* removeCache(loader, callback) with callback = item => item.dispose(),
\* and removeCache(loader)
removeCache(s, l, withCallback) ==
  IF withCallback
  THEN IF s.allCache[l] = 0 THEN s
       ELSE LET g == s.allCache[l]
            IN [forEachItem(s, g, FALSE, {}) EXCEPT !.heap[g] = <<>>]
  ELSE [s EXCEPT !.allCache[l] = 0]

RemoveCache(l, withCallback) ==
  /\ Commit(removeCache(Cur("removeCache", l, 0), l, withCallback))
  /\ UNCHANGED <<subs, nsets, nstore>>

clearAllCache(s) == [s EXCEPT !.allCache = [l \in Loaders |-> 0]]

ClearAllCache ==
  /\ Commit(clearAllCache(Cur("clearAllCache", 0, 0)))
  /\ UNCHANGED <<subs, nsets, nstore>>

\* the listener use(store) subscribed
fireStore(s, lis) ==
  LET u == s.loaders[s.entries[lis.e].loader].uses[lis.i]
      next == s.storeState
  IN IF StoreEqual(u.eq, next, lis.cur) THEN s ELSE revalidate(s, lis.e)

RECURSIVE notifyStore(_, _)
notifyStore(s, done) ==
  LET pend == SelectSeq(s.storeSubs, LAMBDA x : x \notin done)
  IN IF pend = <<>> THEN s
     ELSE notifyStore(fireStore(s, pend[1]), done \cup {pend[1]})

\* the external store changes its state and calls its subscribers
StoreSet(v) ==
  /\ UsesKind(world, "store")
  /\ nstore < MaxStoreSets
  /\ Commit(notifyStore([Cur("storeSet", v, 0) EXCEPT !.storeState = v], {}))
  /\ nstore' = nstore + 1
  /\ UNCHANGED <<subs, nsets>>

\* the listener tag(...) subscribed to globalEffects
fireTag(s, lis, tags) ==
  LET u == s.loaders[s.entries[lis.e].loader].uses[lis.i]
  IN IF TagMatch(u, tags) THEN revalidate(s, lis.e) ELSE s

\* globalEffects.notify(tags): Set.prototype.forEach over the live set
RECURSIVE notifyTags(_, _, _)
notifyTags(s, tags, done) ==
  LET pend == SelectSeq(s.globalEffects, LAMBDA x : x \notin done)
  IN IF pend = <<>> THEN s
     ELSE notifyTags(fireTag(s, pend[1], tags), tags, done \cup {pend[1]})

Broadcasts == << <<"r1">>, <<"r2">>, <<"r">>, <<"r1", "r2">> >>

\* revalidate(tags) of effect.ts
TagRevalidate(b) ==
  /\ UsesKind(world, "tag")
  /\ Commit(notifyTags(Cur("tagRevalidate", b, 0), Broadcasts[b], {}))
  /\ UNCHANGED <<subs, nsets, nstore>>

\* clearEffects()
ClearEffects ==
  /\ UsesKind(world, "tag")
  /\ Commit([Cur("clearEffects", 0, 0) EXCEPT
               !.globalEffects = <<>>,
               !.entries = [e \in EntryIds |->
                  [entries[e] EXCEPT !.busCleared =
                     @ \/ \E x \in Range(globalEffects) : x.e = e]]])
  /\ UNCHANGED <<subs, nsets, nstore>>

\* the requests the consumers make
Requests == {<<1, 1>>, <<1, 2>>, <<1, 3>>, <<2, 1>>}

Load ==
  \/ \E r \in Requests : ViewLoad(r[1], r[2])
  \/ \E l \in Loaders : CacheLoad(l, 1)
  \/ \E l \in Loaders : CacheGet(l, 1)

Listen ==
  \/ \E c \in Consumers, e \in 1..MaxEntries, k \in {"ui", "rereq"} : Subscribe(c, e, k)
  \/ \E c \in Consumers : Unsubscribe(c)

Update ==
  \/ \E e \in 1..MaxEntries, f \in Reducers : EntrySet(e, TRUE, f, Undef)
  \/ \E e \in 1..MaxEntries : EntrySet(e, FALSE, "", 7)
  \/ \E l \in Loaders : CacheSet(l, 1, FALSE, "", 7)

Teardown ==
  \/ \E e \in 1..MaxEntries : TimerFire(e)
  \/ \E e \in 1..MaxEntries : EntryRevalidate(e)
  \/ \E e \in 1..MaxEntries : EntryDispose(e)
  \/ \E l \in Loaders : CacheRevalidate(l)
  \/ \E l \in Loaders : CacheClear(l)
  \/ \E l \in Loaders, cb \in BOOLEAN : RemoveCache(l, cb)
  \/ ClearAllCache

Async == \E p \in 1..MaxPromises, ok \in BOOLEAN : Settle(p, ok)

Next ==
  \/ Load
  \/ Listen
  \/ Update
  \/ Teardown
  \/ Async

NextStore ==
  \/ Next
  \/ \E v \in StoreValues : StoreSet(v)

NextTags ==
  \/ Load
  \/ Listen
  \/ Update
  \/ Teardown
  \/ \E b \in 1..Len(Broadcasts) : TagRevalidate(b)
  \/ ClearEffects

NextSync ==
  \/ Load
  \/ Listen
  \/ Update
  \/ Teardown

InitIn(ws) == Init /\ world \in ws

\* asynchronous and synchronous plain loaders
Spec == InitIn({"plain"}) /\ [][Next]_vars
\* loaders that read a store
SpecStore == InitIn({"store"}) /\ [][NextStore]_vars
\* loaders registered against tags
SpecTags == InitIn({"tags", "tagforms"}) /\ [][NextTags]_vars
\* a loader that reads another cache
SpecDep == InitIn({"dep", "depslow"}) /\ [][Next]_vars
\* loaders that revalidate their own entry while it is being created
SpecReentrant == InitIn({"reentrant"}) /\ [][NextSync]_vars
\* a loader that throws and a loader whose promise may be rejected, next to
\* the plain loaders
SpecFailing == InitIn({"plain", "failing"}) /\ [][Next]_vars
\* a loader that registers against another cache and returns at once
SpecDepSync == InitIn({"depsync"}) /\ [][NextSync]_vars
\* two loaders that read each other's cache after an await
SpecMutual == InitIn({"mutual"}) /\ [][Next]_vars
\* loaders that pass use() an effect that emits at once, before or after
\* they read the store
SpecEmit == InitIn({"emitting"}) /\ [][NextStore]_vars

\* ------------------------------------------------------------ getKey alone
\* the props objects getKey is applied to: records of the keys a, b, c in
\* either order of insertion, nested once, arrays of records and of numbers
KeyLeaves == {VUndef, VNull, VNaN, VNum(1), VNum(2)}
KeySmallLeaves == {VUndef, VNum(1)}
KeyRecords(leaves) ==
  {VObj(<<>>)}
    \cup {VObj(<<KV("a", v)>>) : v \in leaves}
    \cup {VObj(<<KV("a", v), KV("b", w)>>) : v \in leaves, w \in leaves}
    \cup {VObj(<<KV("b", w), KV("a", v)>>) : v \in leaves, w \in leaves}
KeyNested ==
  {VObj(<<KV("c", o), KV("a", v)>>) : o \in KeyRecords(KeySmallLeaves), v \in KeySmallLeaves}
    \cup {VObj(<<KV("a", v), KV("c", o)>>) : o \in KeyRecords(KeySmallLeaves), v \in KeySmallLeaves}
    \cup {VArr(<<o>>) : o \in KeyRecords(KeySmallLeaves)}
\* arrays of two numbers, flat and nested
KeyArrays ==
  {VArr(<<VNum(1), VNum(2)>>),
   VArr(<<VArr(<<VNum(1), VNum(2)>>)>>),
   VArr(<<VArr(<<VNum(1)>>), VNum(2)>>)}
KeyInputs == KeyRecords(KeyLeaves) \cup KeyNested \cup KeyArrays

\* two props objects are given, and nothing has been cached
InitKey ==
  /\ InitHeap
  /\ world = "plain"
  /\ keyProps \in KeyInputs \X KeyInputs
  /\ keyResult = <<>>
  /\ lsn = NewListenable

\* getKey(props) is called for each of the two
GetKey ==
  /\ keyResult = <<>>
  /\ keyResult' = <<getKey(keyProps[1]), getKey(keyProps[2])>>
  /\ UNCHANGED <<world, hasGroup, items, entries, promises, storeState, storeSubs,
                 globalEffects, loaderCalls, subs, log, nsets, nstore, steps, keyProps,
                 lsn>>

SpecKey == InitKey /\ [][GetKey]_vars

\* ------------------------------------------------------------ a listenable alone
\* One createListenable({ onSubscribe, onUnsubscribe }) driven by a caller.
\* q.listeners is the Set in insertion order; while a forEach may be running
\* a deleted element leaves a hole (""), as in the Set's own list, so that
\* the iteration skips it and reaches what was added after it.  q.handles
\* are the unsubscribe functions returned so far, q.onSubscribe and
\* q.onUnsubscribe count the calls of the hooks, q.called lists the
\* listeners called during the current method call, those called by a
\* notifyAndClear() between "[" and "]".
MaxCalls == 4

\* the listener functions the caller has: a and b only record the call;
\* add subscribes b, drop calls the unsubscribe function of a, nest calls
\* notifyAndClear()
ListenerFns == {"a", "b", "add", "drop", "nest"}

Live(q) == SelectSeq(q.listeners, LAMBDA x : x # "")
\* get size()
size(q) == Len(Live(q))

\* clear()
clear(q) == [q EXCEPT !.listeners = [i \in 1..Len(@) |-> ""]]

\* subscribe(listener): the hook, then Set.prototype.add
subscribe(q, l) ==
  [q EXCEPT !.onSubscribe = @ + 1,
            !.listeners = IF l \in Range(@) THEN @ ELSE Append(@, l),
            !.handles = Append(@, [l |-> l, active |-> TRUE])]

\* the function subscribe returned as handle h
unsubscribe(q, h) ==
  IF ~q.handles[h].active THEN q
  ELSE [q EXCEPT !.handles[h].active = FALSE,
                 !.listeners = [i \in 1..Len(@) |-> IF @[i] = q.handles[h].l THEN "" ELSE @[i]],
                 !.onUnsubscribe = @ + 1]

RECURSIVE callListener(_, _)
RECURSIVE forEachCopy(_, _)
RECURSIVE notify(_, _)

\* q.called brackets the calls made by one notifyAndClear()
Mark(q, m) == [q EXCEPT !.called = Append(@, m)]

\* a notifyAndClear() that clears the set before it copies it
notifyAndClearNoCopy(q) == Mark(notify(clear(Mark(q, "[")), 1), "]")

\* notifyAndClear(): Array.from(listeners), listeners.clear(), copy.forEach
notifyAndClear(q) == Mark(forEachCopy(clear(Mark(q, "[")), Live(q)), "]")

forEachCopy(q, copy) ==
  IF copy = <<>> THEN q ELSE forEachCopy(callListener(q, Head(copy)), Tail(copy))

\* listener(args)
callListener(q, l) ==
  LET q1 == [q EXCEPT !.called = Append(@, l)]
      mine == {h \in 1..Len(q.handles) : q.handles[h].l = "a" /\ q.handles[h].active}
  IN CASE l = "add" -> subscribe(q1, "b")
       [] l = "drop" /\ mine # {} ->
            unsubscribe(q1, CHOOSE h \in mine : \A g \in mine : h <= g)
       [] l = "nest" -> notifyAndClear(q1)
       [] OTHER -> q1

\* notify(): Set.prototype.forEach over the live set, from position i
notify(q, i) ==
  IF i > Len(q.listeners) THEN q
  ELSE notify(IF q.listeners[i] # "" THEN callListener(q, q.listeners[i]) ELSE q, i + 1)

\* the method call has returned; no forEach is running, the holes are gone
Called(op, arg, q) ==
  /\ Len(q.handles) <= MaxCalls
  /\ lsn' = [q EXCEPT !.listeners = Live(q), !.op = <<op, arg>>]
  /\ steps' = steps + 1
  /\ UNCHANGED <<world, hasGroup, items, entries, promises, storeState, storeSubs,
                 globalEffects, loaderCalls, subs, log, nsets, nstore,
                 keyProps, keyResult>>

Fresh == [lsn EXCEPT !.called = <<>>]

ListenableSubscribe(l) ==
  /\ steps < MaxCalls
  /\ Called("subscribe", l, subscribe(Fresh, l))

ListenableUnsubscribe(h) ==
  /\ steps < MaxCalls
  /\ h \in 1..Len(lsn.handles)
  /\ Called("unsubscribe", lsn.handles[h].l, unsubscribe(Fresh, h))

ListenableClear ==
  /\ steps < MaxCalls
  /\ Called("clear", "", clear(Fresh))

ListenableNotify ==
  /\ steps < MaxCalls
  /\ Called("notify", "", notify(Fresh, 1))

ListenableNotifyAndClear ==
  /\ steps < MaxCalls
  /\ Called("notifyAndClear", "", notifyAndClear(Fresh))

NextListenable ==
  \/ \E l \in ListenerFns : ListenableSubscribe(l)
  \/ \E h \in 1..MaxCalls : ListenableUnsubscribe(h)
  \/ ListenableClear
  \/ ListenableNotify
  \/ ListenableNotifyAndClear

SpecListenable == InitIn({"plain"}) /\ [][NextListenable]_vars

\* ------------------------------------------------------------ observers
\* the entry the registry holds for (loader, key); 0 when there is none
Reg(l, key) == IF hasGroup[l] THEN MapGet(items[l], key) ELSE 0
KeyOf(pid) == getKey(Props[pid])
\* lg is the log of a tryCreate made by a consumer for (l, pid)
IsLoad(lg, l, pid) ==
  Len(lg) > 0 /\ lg[1].ev \in {"viewLoad", "cacheLoad"} /\ lg[1].a = l /\ lg[1].b = pid
\* the entry that tryCreate returned to the consumer
Ret(lg) == lg[CHOOSE i \in 1..Len(lg) : lg[i].ev = "ret"].a
\* the number of times revalidate() of entry e was called by the handler
RevalCount(lg, e) ==
  Cardinality({i \in 1..Len(lg) : lg[i].ev = "revalidate" /\ lg[i].a = e})
\* the loader of entry e was invoked by the handler
Loaded(lg, e) == \E i \in 1..Len(lg) : lg[i].ev = "load" /\ lg[i].a = e
\* the promise returned by the loader of entry e has not settled
InFlight(e) == entries[e].p0 # 0 /\ promises[entries[e].p0].st = "pending"
\* Ready: not removed, not loading, and get() returns a fulfilled promise
Ready(e) ==
  /\ ~entries[e].removed
  /\ ~entries[e].loading
  /\ \/ entries[e].result.h = "val"
     \/ entries[e].result.h = "p" /\ promises[entries[e].result.v].st = "ok"

\* ------------------------------------------------------------ C1
\* C1: a tryCreate(L, props) made while the registry holds an entry for
\* (L, key) returns that entry, creates none and invokes no loader; and
\* every loader has been invoked exactly once per entry of it.
C1_SingletonComputation ==
  /\ [](\A l \in Loaders :
          loaderCalls[l] = Cardinality({e \in EntryIds : entries[e].loader = l}))
  /\ [][\A l \in Loaders, pid \in PropIds :
          (IsLoad(log', l, pid) /\ Reg(l, KeyOf(pid)) # 0)
            => /\ Ret(log') = Reg(l, KeyOf(pid))
               /\ loaderCalls' = loaderCalls
               /\ Len(entries') = Len(entries)]_vars

\* a load that found the entry of a loader whose promise is still pending
C1_Witness ==
  /\ Len(log) = 2
  /\ log[1].ev \in {"viewLoad", "cacheLoad"}
  /\ log[2].ev = "ret"
  /\ InFlight(log[2].a)
  /\ entries[log[2].a].loading
  /\ loaderCalls[log[1].a] = 1

\* ------------------------------------------------------------ C2
\* C2: no two entries of the same (loader, key) have loader promises that
\* are both unsettled.
C2_AtMostOneInFlight ==
  \A e1, e2 \in EntryIds :
    (/\ e1 # e2
     /\ entries[e1].loader = entries[e2].loader
     /\ entries[e1].key = entries[e2].key
     /\ InFlight(e1))
      => ~InFlight(e2)

\* ------------------------------------------------------------ C3
\* C3: a change-listener called by entry.revalidate() that requests the same
\* (loader, props) again receives an entry other than the one revalidated,
\* created by a loader call made for this request.
C3_FreshOnRevalidate ==
  \A i \in 1..Len(log) :
    log[i].ev = "gotOnRevalidate"
      => log[i].b # log[i].a /\ Loaded(log, log[i].b)

\* ------------------------------------------------------------ C4
\* C4: the registry maps no key to an entry whose removed flag is true.
C4_NoRemovedInRegistry ==
  \A l \in Loaders : \A i \in 1..Len(items[l]) :
    hasGroup[l] => ~entries[items[l][i].e].removed

\* ------------------------------------------------------------ C5
\* C5: an entry that was inserted into the registry and is not removed is
\* the entry the registry holds for its (loader, key).
C5_LiveIsRegistered ==
  \A e \in EntryIds :
    (entries[e].inserted /\ ~entries[e].removed)
      => Reg(entries[e].loader, entries[e].key) = e

\* ------------------------------------------------------------ C6
\* the store state next is equal, by the equality the loader of e passed to
\* use(store, equal), to the snapshot the loader of e took
C6_EqualToSnapshot(e, next) ==
  IF LoaderDef(world, entries[e].loader).uses[1].eq = "parity"
  THEN next % 2 = entries[e].snap % 2
  ELSE next = entries[e].snap

\* C6: when the store changes, a Ready entry whose loader read the store is
\* revalidated exactly once if the new state is unequal to its snapshot and
\* not at all if it is equal.
C6_StorePropagation ==
  [][(Len(log') > 0 /\ log'[1].ev = "storeSet")
       => \A e \in EntryIds :
            Ready(e) => RevalCount(log', e) =
                          IF C6_EqualToSnapshot(e, storeState') THEN 0 ELSE 1]_vars

\* the store went from 0 to 2: the entry comparing with Object.is was
\* revalidated, the Ready entry comparing parities was not
C6_Witness ==
  /\ Len(log) > 0
  /\ log[1] = Ev("storeSet", 2, 0)
  /\ \E e1, e2 \in EntryIds :
       /\ entries[e1].loader = 1 /\ entries[e1].snap = 0
       /\ RevalCount(log, e1) = 1 /\ entries[e1].removed
       /\ entries[e2].loader = 2 /\ entries[e2].snap = 0
       /\ RevalCount(log, e2) = 0 /\ Ready(e2)

\* ------------------------------------------------------------ C7
\* the handler changed the value of entry b: a set that changed its data, or
\* a revalidate
C7_Changed(b) ==
  \/ log'[1].ev \in {"set", "cacheSet"} /\ entries'[b].data # entries[b].data
  \/ RevalCount(log', b) > 0

\* C7: when the value of an entry changes, every entry whose loader read it
\* through use(cache) is revalidated.
C7_DependentRevalidated ==
  [][\A a \in EntryIds :
       (/\ entries[a].reads # 0
        /\ ~entries[a].removed
        /\ C7_Changed(entries[a].reads))
         => RevalCount(log', a) > 0]_vars

\* ------------------------------------------------------------ C8
\* the tags the matcher of loader l accepts
C8_Accepts(l) ==
  CASE world = "tags" /\ l = 1 -> {"r1", "r"}
    [] world = "tags" /\ l = 2 -> {"r2", "r"}
    [] world = "tagforms" /\ l = 1 -> {"r1"}
    [] OTHER -> {"r2", "r"}

\* C8: a broadcast revalidates, exactly once, each settled entry whose tag
\* registration is active and accepts one of the broadcast tags, and no
\* other entry.
C8_TagFanOut ==
  [][(Len(log') > 0 /\ log'[1].ev = "tagRevalidate")
       => \A e \in EntryIds :
            RevalCount(log', e) =
              IF /\ ~entries[e].removed
                 /\ ~entries[e].busCleared
                 /\ C8_Accepts(entries[e].loader) \cap Range(Broadcasts[log'[1].a]) # {}
              THEN 1 ELSE 0]_vars

\* "r1" was broadcast: the entry tagged [r1, r] was revalidated, the entry
\* tagged [r2, r] was not
C8_Witness ==
  /\ world = "tags"
  /\ Len(log) > 0
  /\ log[1] = Ev("tagRevalidate", 1, 0)
  /\ \E e1, e2 \in EntryIds :
       /\ entries[e1].loader = 1 /\ RevalCount(log, e1) = 1 /\ entries[e1].removed
       /\ entries[e2].loader = 2 /\ RevalCount(log, e2) = 0 /\ Ready(e2)

\* ------------------------------------------------------------ C9
\* entry e was removed by its dispose timer and nothing has been registered
\* for (l, pid) since
C9_Disposed(e, l, pid) ==
  /\ entries[e].byTimer
  /\ entries[e].loader = l
  /\ entries[e].key = KeyOf(pid)
  /\ Reg(l, KeyOf(pid)) = 0

\* C9: a request never returns an entry its dispose timer removed; the first
\* request after the removal creates an entry, invokes the loader again and
\* yields the value of that invocation.
C9_DisposeThenRecreate ==
  /\ [](\A l \in Loaders, pid \in PropIds :
          IsLoad(log, l, pid) => ~entries[Ret(log)].byTimer)
  /\ [][\A l \in Loaders, pid \in PropIds, e \in EntryIds :
          (IsLoad(log', l, pid) /\ C9_Disposed(e, l, pid))
            => /\ Ret(log') = Len(entries) + 1
               /\ Loaded(log', Ret(log'))
               /\ loaderCalls'[l] = loaderCalls[l] + 1
               /\ entries'[Ret(log')].v0 = loaderCalls'[l]
               /\ entries'[Ret(log')].v0 # entries[e].v0]_vars

\* the loader was invoked a second time for a key whose first entry resolved
\* to 1 and was removed by its timer
C9_Witness ==
  /\ Len(log) > 0
  /\ log[1].ev \in {"viewLoad", "cacheLoad"}
  /\ Loaded(log, Ret(log))
  /\ entries[Ret(log)].v0 = 2
  /\ \E e \in EntryIds :
       /\ entries[e].byTimer
       /\ entries[e].v0 = 1
       /\ entries[e].data = 1
       /\ entries[e].loader = entries[Ret(log)].loader
       /\ entries[e].key = entries[Ret(log)].key

\* ------------------------------------------------------------ C10
RECURSIVE Fold(_, _)
\* the reducers of sets applied, in call order, to v
Fold(sets, v) ==
  IF sets = <<>> THEN v ELSE Fold(Tail(sets), applyReducer(Head(sets).f, v).v)

\* every set() made on entry e passed a reducer that does not throw, and was
\* made while e was loading
C10_OnlyChained(e) ==
  /\ entries[e].p0 # 0
  /\ entries[e].sets # <<>>
  /\ \A i \in 1..Len(entries[e].sets) :
       entries[e].sets[i].pending /\ entries[e].sets[i].f \in {"inc", "dbl", "same"}

\* C10: an entry that received only reducers while Pending is loading until
\* its loader's promise settles; once that promise is fulfilled the entry is
\* not loading and its data is the reducers applied in call order to the
\* value the loader resolved to.
C10_UpdateSerialization ==
  \A e \in EntryIds :
    C10_OnlyChained(e) =>
      /\ InFlight(e) => entries[e].loading /\ entries[e].data = Undef
      /\ promises[entries[e].p0].st = "ok" =>
           /\ ~entries[e].loading
           /\ entries[e].data = Fold(entries[e].sets, promises[entries[e].p0].fv)

\* the loader resolved to 1 after set(v => v + 1) and set(v => 2 * v)
C10_Witness ==
  \E e \in EntryIds :
    /\ C10_OnlyChained(e)
    /\ entries[e].sets = << [f |-> "inc", pending |-> TRUE],
                            [f |-> "dbl", pending |-> TRUE] >>
    /\ promises[entries[e].p0].st = "ok"
    /\ promises[entries[e].p0].fv = 1
    /\ entries[e].data = 4

\* ------------------------------------------------------------ C11
\* C11: dispose() of an entry that is not removed removes it from the
\* registry and ends its store and tag subscriptions; dispose() of an entry
\* that is already removed removes nothing, runs no cleanup and leaves the
\* registry, every entry and every subscription as they were.
C11_IdempotentDisposal ==
  [][\A e \in EntryIds :
       (Len(log') > 0 /\ log'[1] = Ev("entryDispose", e, 0))
         => IF entries[e].removed
            THEN /\ Len(log') = 1
                 /\ items' = items
                 /\ hasGroup' = hasGroup
                 /\ entries' = entries
                 /\ promises' = promises
                 /\ storeSubs' = storeSubs
                 /\ globalEffects' = globalEffects
            ELSE /\ entries'[e].removed
                 /\ entries'[e].onCleanup = <<>>
                 /\ \A l \in Loaders : \A i \in 1..Len(items'[l]) : items'[l][i].e # e
                 /\ \A x \in Range(storeSubs') : x.e # e
                 /\ Len(SelectSeq(log', LAMBDA x : x.ev = "remove")) = 1]_vars

\* dispose() was called on an entry that had subscribed to the store and was
\* already removed, while another entry of the store is registered
C11_Witness ==
  /\ log = <<Ev("entryDispose", 1, 0)>>
  /\ entries[1].removed
  /\ ~entries[1].byTimer
  /\ entries[1].snap # Undef
  /\ storeSubs # <<>>
  /\ \A x \in Range(storeSubs) : x.e # 1

\* ------------------------------------------------------------ C12
\* C12: an entry created under "never" never has a dispose timer armed and
\* is never removed by one; once registered it leaves the registry only in a
\* dispose, a clear, a registry reset or a handler that revalidated it, and
\* never in a subscribe, unsubscribe, settle or set.
C12_NeverPolicy ==
  /\ [](\A e \in EntryIds :
          entries[e].disposeWhen = "never" => ~entries[e].timer /\ ~entries[e].byTimer)
  /\ [][\A e \in EntryIds :
          (/\ entries[e].disposeWhen = "never"
           /\ Reg(entries[e].loader, entries[e].key) = e
           /\ \/ ~hasGroup'[entries[e].loader]
              \/ MapGet(items'[entries[e].loader], entries[e].key) # e)
            => /\ Len(log') > 0
               /\ \/ log'[1].ev \in {"entryDispose", "cacheClear", "removeCache",
                                     "clearAllCache"}
                  \/ RevalCount(log', e) > 0]_vars

\* a consumer detached from a registered "never" entry whose loader promise
\* was fulfilled: no timer is armed
C12_Witness ==
  /\ Len(log) > 0
  /\ log[1].ev = "unsubscribe"
  /\ entries[log[1].a].disposeWhen = "never"
  /\ entries[log[1].a].p0 # 0
  /\ promises[entries[log[1].a].p0].st = "ok"
  /\ entries[log[1].a].onChange = <<>>
  /\ ~entries[log[1].a].timer
  /\ Reg(entries[log[1].a].loader, entries[log[1].a].key) = log[1].a

\* ------------------------------------------------------------ C13
\* C13: the dispose timer of an "unused" entry is armed only while the entry
\* has no change-subscriber, and a timer that fires on an entry not yet
\* removed finds it without change-subscribers.
C13_TimerOnlyWhenUnsubscribed ==
  /\ [](\A e \in EntryIds :
          (entries[e].disposeWhen = "unused" /\ entries[e].timer)
            => entries[e].onChange = <<>>)
  /\ [][\A e \in EntryIds :
          (/\ Len(log') > 0
           /\ log'[1] = Ev("timer", e, 0)
           /\ ~entries[e].removed)
            => entries[e].onChange = <<>>]_vars

\* ------------------------------------------------------------ C14
\* setTimeout callbacks that are due are eventually run
SpecTimers == Spec /\ \A e \in 1..MaxEntries : WF_vars(TimerFire(e))

\* entry e is registered under "unused", settled, and has no change-subscriber
C14_Idle(e) ==
  /\ e \in EntryIds
  /\ entries[e].disposeWhen = "unused"
  /\ Reg(entries[e].loader, entries[e].key) = e
  /\ ~entries[e].loading
  /\ entries[e].result.h \in {"val", "err", "p"}
  /\ entries[e].onChange = <<>>

\* C14: an "unused" entry that is settled and has no change-subscriber is
\* eventually out of the registry, or gets a subscriber, or the run has used
\* up its steps.
C14_AutoDispose ==
  \A e \in 1..MaxEntries :
    [](C14_Idle(e) => <>(~C14_Idle(e) \/ steps = MaxSteps))

\* ------------------------------------------------------------ C15
\* the handler made no removal and invoked no loader
C15_Kept(e) ==
  /\ entries'[e].removed = entries[e].removed
  /\ entries'[e].data = entries[e].data
  /\ items' = items
  /\ hasGroup' = hasGroup
  /\ loaderCalls' = loaderCalls
  /\ \A i \in 1..Len(log') : log'[i].ev \notin {"remove", "load"}

\* C15: when the last change-subscriber of an "unused" entry detaches, the
\* entry is not removed but its timer is armed; when a change-subscriber
\* attaches while the timer is armed, the timer is cancelled, and the entry
\* keeps its place in the registry and its data, and no loader is invoked.
C15_RebindingWindow ==
  [][\A e \in EntryIds :
       /\ (/\ Len(log') > 0
           /\ log'[1].ev = "unsubscribe"
           /\ log'[1].a = e
           /\ entries[e].disposeWhen = "unused"
           /\ entries'[e].onChange = <<>>)
            => entries'[e].timer /\ C15_Kept(e)
       /\ (/\ Len(log') > 0
           /\ log'[1].ev = "subscribe"
           /\ log'[1].a = e
           /\ entries[e].timer)
            => ~entries'[e].timer /\ entries'[e].onChange # <<>> /\ C15_Kept(e)]_vars

\* a consumer attached again to a synchronously loaded entry whose timer its
\* own detaching had armed: the entry is registered with its value and the
\* loader was invoked once
C15_Witness ==
  \E e \in EntryIds :
    /\ Len(log) = 2
    /\ log[1].ev = "subscribe"
    /\ log[2] = Ev("cancel", e, 0)
    /\ entries[e].disposeWhen = "unused"
    /\ entries[e].p0 = 0
    /\ ~entries[e].timer
    /\ entries[e].onChange # <<>>
    /\ entries[e].data = entries[e].v0
    /\ entries[e].data # Undef
    /\ Reg(entries[e].loader, entries[e].key) = e
    /\ loaderCalls[entries[e].loader] = 1

\* ------------------------------------------------------------ C16
\* what the promise returned by get() of entry e settles to
Outcome(e) ==
  CASE entries[e].result.h = "val" -> [st |-> "ok", v |-> entries[e].result.v]
    [] entries[e].result.h = "err" -> [st |-> "err", v |-> entries[e].result.v]
    [] entries[e].result.h = "p" ->
         [st |-> promises[entries[e].result.v].st, v |-> promises[entries[e].result.v].v]
    [] OTHER -> [st |-> "pending", v |-> Undef]

\* C16: when the promise returned by get() is fulfilled its value is the
\* entry's data, and when it is rejected its reason is the entry's error.
C16_GetAgreesWithState ==
  \A e \in EntryIds :
    /\ Outcome(e).st = "ok" => Outcome(e).v = entries[e].data
    /\ Outcome(e).st = "err" => Outcome(e).v = entries[e].error

\* ------------------------------------------------------------ C17
\* C17: the loading view is true exactly while the promise returned by get()
\* is unsettled; the error view reports nothing while that promise is
\* fulfilled and reports an error while it is rejected.
C17_ExactlyOneState ==
  \A e \in EntryIds :
    /\ entries[e].loading <=> Outcome(e).st = "pending"
    /\ Outcome(e).st = "ok" => entries[e].error = Undef
    /\ Outcome(e).st = "err" => entries[e].error # Undef

\* ------------------------------------------------------------ C18
\* the handler called set(7), with a value that is no function, on entry e
C18_PlainSet(e) ==
  /\ Len(log') > 0
  /\ log'[1].ev \in {"set", "cacheSet"}
  /\ Len(entries'[e].sets) = Len(entries[e].sets) + 1
  /\ entries'[e].sets[Len(entries'[e].sets)].f = "plain"

\* C18: after set(7) the entry is not loading, its data is 7 and get()
\* resolves with 7, whatever its state was; and a loader promise that
\* settles after a plain set changes nothing of the entry.
C18_PlainSetIsReady ==
  [][\A e \in EntryIds :
       /\ C18_PlainSet(e)
            => /\ entries'[e].data = 7
               /\ entries'[e].result = H("val", 7)
               /\ ~entries'[e].loading
       /\ (/\ Len(log') > 0
           /\ log'[1].ev = "settle"
           /\ log'[1].a = entries[e].p0
           /\ entries[e].result = H("val", 7))
            => entries'[e] = entries[e]]_vars

\* ------------------------------------------------------------ C19
\* every set() made on entry e passed a reducer and was made while e was
\* loading, and one of the reducers throws
C19_ChainedThrow(e) ==
  /\ entries[e].p0 # 0
  /\ \A i \in 1..Len(entries[e].sets) :
       entries[e].sets[i].pending /\ entries[e].sets[i].f # "plain"
  /\ \E i \in 1..Len(entries[e].sets) : entries[e].sets[i].f = "throw"

\* C19: set(reducer) with a reducer that throws, on an entry that is not
\* loading, leaves the entry not loading with the thrown error in its error
\* view, a rejected handle and its data untouched; chained onto a loading
\* entry it leaves the entry loading until the loader's promise settles, and
\* once that promise is fulfilled the entry is not loading, its error view
\* holds the thrown error and get() rejects with it.
C19_ReducerThrowIsFailed ==
  /\ [](\A e \in EntryIds :
          C19_ChainedThrow(e) =>
            /\ InFlight(e) => entries[e].loading /\ entries[e].error = Undef
            /\ promises[entries[e].p0].st = "ok" =>
                 /\ ~entries[e].loading
                 /\ entries[e].error = ErrReducer
                 /\ Outcome(e) = [st |-> "err", v |-> ErrReducer])
  /\ [][\A e \in EntryIds :
          (/\ Len(log') > 0
           /\ log'[1].ev \in {"set", "cacheSet"}
           /\ Len(entries'[e].sets) = Len(entries[e].sets) + 1
           /\ entries'[e].sets[Len(entries'[e].sets)] = [f |-> "throw", pending |-> FALSE])
            => /\ ~entries'[e].loading
               /\ entries'[e].error = ErrReducer
               /\ Outcome(e)'.st = "err"
               /\ entries'[e].data = entries[e].data]_vars

\* the loader resolved after set(() => { throw }) and set(v => 2 * v) were
\* chained onto it: the entry is Failed with the reducer's error
C19_Witness ==
  \E e \in EntryIds :
    /\ C19_ChainedThrow(e)
    /\ entries[e].sets = << [f |-> "throw", pending |-> TRUE],
                            [f |-> "dbl", pending |-> TRUE] >>
    /\ promises[entries[e].p0].st = "ok"
    /\ entries[e].error = ErrReducer
    /\ entries[e].data = Undef
    /\ ~entries[e].loading

\* ------------------------------------------------------------ C20
\* how the call of loader l ends
C20_Kind(l) ==
  CASE world = "failing" /\ l = 1 -> "throw"
    [] world = "plain" /\ l = 2 -> "return"
    [] OTHER -> "promise"

\* entry e is as create() leaves it when its loader ended in the way kind
C20_Constructed(e, kind) ==
  CASE kind = "throw" ->
         /\ ~entries'[e].loading
         /\ entries'[e].error = ErrLoader
         /\ entries'[e].data = Undef
         /\ Outcome(e)'.st = "err"
    [] kind = "return" ->
         /\ ~entries'[e].loading
         /\ entries'[e].error = Undef
         /\ entries'[e].data = entries'[e].v0
         /\ Outcome(e)' = [st |-> "ok", v |-> entries'[e].v0]
    [] OTHER ->
         /\ entries'[e].loading
         /\ entries'[e].error = Undef
         /\ entries'[e].data = Undef
         /\ Outcome(e)'.st = "pending"

\* C20: a tryCreate that invokes the loader returns the entry it created and
\* has inserted it, Failed with the loader's error when the loader threw,
\* Ready with the returned value when it returned, Pending when it returned
\* a promise; and when that promise is rejected the entry, unless a plain
\* set replaced its result, is not loading, its error view holds the
\* rejection and get() rejects with it.
C20_LoaderFailureIsState ==
  /\ [][\A l \in Loaders, pid \in PropIds, e \in 1..MaxEntries :
          (IsLoad(log', l, pid) /\ e = Ret(log') /\ Loaded(log', e))
            => /\ e = Len(entries) + 1
               /\ Len(entries') = Len(entries) + 1
               /\ hasGroup'[l]
               /\ MapGet(items'[l], KeyOf(pid)) = e
               /\ C20_Constructed(e, C20_Kind(l))]_vars
  /\ [][\A e \in EntryIds :
          (/\ Len(log') > 0
           /\ log'[1] = Ev("settle", entries[e].p0, 0)
           /\ \A i \in 1..Len(entries[e].sets) :
                entries[e].sets[i].pending /\ entries[e].sets[i].f # "plain")
            => /\ ~entries'[e].loading
               /\ entries'[e].error = ErrLoader
               /\ entries'[e].data = Undef
               /\ Outcome(e)' = [st |-> "err", v |-> ErrLoader]]_vars

\* the registry holds an entry whose loader threw and an entry whose loader
\* promise has just been rejected; both report the loader's error
C20_Witness ==
  /\ world = "failing"
  /\ Len(log) > 0
  /\ log[1].ev = "settle"
  /\ \E e1, e2 \in EntryIds :
       /\ entries[e1].loader = 1 /\ entries[e1].p0 = 0
       /\ entries[e1].error = ErrLoader /\ ~entries[e1].loading
       /\ Reg(1, entries[e1].key) = e1
       /\ entries[e2].loader = 2 /\ log[1] = Ev("settle", entries[e2].p0, 0)
       /\ entries[e2].error = ErrLoader /\ ~entries[e2].loading
       /\ Reg(2, entries[e2].key) = e2

\* ------------------------------------------------------------ C21
\* C21: set, dispose and revalidate called on an entry that is already
\* removed leave its data, error and loading views and the registry as they
\* were, call no change-listener and invoke no loader.
C21_RemovedIsInert ==
  [][\A e \in EntryIds :
       (/\ Len(log') > 0
        /\ log'[1].ev \in {"set", "entryDispose", "entryRevalidate"}
        /\ log'[1].a = e
        /\ entries[e].removed)
         => /\ entries'[e].data = entries[e].data
            /\ entries'[e].error = entries[e].error
            /\ entries'[e].loading = entries[e].loading
            /\ entries'[e].result = entries[e].result
            /\ items' = items
            /\ hasGroup' = hasGroup
            /\ \A i \in 1..Len(log') :
                 log'[i].ev \notin {"fire", "gotOnChange", "gotOnRevalidate", "load"}]_vars

\* ------------------------------------------------------------ C22
RECURSIVE C22_StructEq(_, _)
\* x and y are structurally equal: records with the same keys, leaving out
\* those set to undefined or null, and structurally equal values under each;
\* arrays with structurally equal members; otherwise the same value
C22_StructEq(x, y) ==
  CASE x.t = "obj" /\ y.t = "obj" ->
         LET present(v) == {i \in 1..Len(v.kids) : v.kids[i].v.t \notin {"undef", "null"}}
         IN /\ {x.kids[i].k : i \in present(x)} = {y.kids[j].k : j \in present(y)}
            /\ \A i \in present(x), j \in present(y) :
                 x.kids[i].k = y.kids[j].k => C22_StructEq(x.kids[i].v, y.kids[j].v)
    [] x.t = "arr" /\ y.t = "arr" ->
         /\ Len(x.kids) = Len(y.kids)
         /\ \A i \in 1..Len(x.kids) : C22_StructEq(x.kids[i].v, y.kids[i].v)
    [] OTHER -> x = y

\* C22: getKey returns the same string for two structurally equal props
\* objects.
C22_KeyDeterminism ==
  (keyResult # <<>> /\ C22_StructEq(keyProps[1], keyProps[2]))
    => keyResult[1] = keyResult[2]

\* getKey was applied to {c: {a: 1, b: undefined}, a: 1} and to
\* {a: 1, c: {a: 1}}: both give {"a":1,"c":{"a":1}}
C22_Witness ==
  /\ keyResult # <<>>
  /\ keyProps[1] = VObj(<<KV("c", VObj(<<KV("a", VNum(1)), KV("b", VUndef)>>)), KV("a", VNum(1))>>)
  /\ keyProps[2] = VObj(<<KV("a", VNum(1)), KV("c", VObj(<<KV("a", VNum(1))>>))>>)
  /\ keyResult[1] = keyResult[2]
  /\ keyResult[1] = <<"{", "\"", "a", "\"", ":", "1", ",",
                      "\"", "c", "\"", ":", "{", "\"", "a", "\"", ":", "1", "}", "}">>

\* ------------------------------------------------------------ C23
\* C23: no removed entry has a listener subscribed to the store, to the tag
\* effects or to the change-listeners of another entry.
C23_RemovedHoldsNothing ==
  \A e \in EntryIds :
    entries[e].removed =>
      /\ \A x \in Range(storeSubs) : x.e # e
      /\ \A x \in Range(globalEffects) : x.e # e
      /\ \A d \in EntryIds : \A x \in Range(entries[d].onChange) :
           ~(x.k = "cache" /\ x.e = e)

\* ------------------------------------------------------------ C24
\* the listeners entry e has subscribed to the store
C24_StoreSubs(e) == {i \in 1..Len(storeSubs) : storeSubs[i].e = e}

\* C24: while the promise of an entry is unsettled none of its effects has
\* run and it has no listener at the store; an entry that is settled and not
\* removed, whether its loader returned at once or its promise settled
\* later, has run each of its effects exactly once, holds none back and has
\* exactly one listener at the store; no entry ever runs an effect twice.
C24_DeferredActivation ==
  \A e \in EntryIds :
    /\ entries[e].acts <= Len(LoaderDef(world, entries[e].loader).uses)
    /\ Outcome(e).st = "pending" =>
         /\ entries[e].acts = 0
         /\ C24_StoreSubs(e) = {}
         /\ ~entries[e].removed =>
              Len(entries[e].onReady) = Len(LoaderDef(world, entries[e].loader).uses)
    /\ (Outcome(e).st # "pending" /\ ~entries[e].removed) =>
         /\ entries[e].acts = Len(LoaderDef(world, entries[e].loader).uses)
         /\ entries[e].onReady = <<>>
         /\ Cardinality(C24_StoreSubs(e)) = 1

\* the loader of entry 1 returned at once and its effect ran during the
\* load; the promise of entry 2 has just been fulfilled and its effect ran
C24_Witness ==
  /\ Len(log) > 0
  /\ log[1].ev = "settle"
  /\ Len(entries) = 2
  /\ entries[1].p0 = 0 /\ entries[1].acts = 1 /\ ~entries[1].removed
  /\ log[1].a = entries[2].p0 /\ entries[2].acts = 1 /\ ~entries[2].removed
  /\ Cardinality(C24_StoreSubs(1)) = 1
  /\ Cardinality(C24_StoreSubs(2)) = 1

\* ------------------------------------------------------------ C25
\* C25: a dispose timer that fires on an entry not yet removed finds the
\* promise returned by its get() settled.
C25_TimerSparesPending ==
  [][\A e \in EntryIds :
       (/\ Len(log') > 0
        /\ log'[1] = Ev("timer", e, 0)
        /\ ~entries[e].removed)
         => Outcome(e).st # "pending"]_vars

\* ------------------------------------------------------------ C26
\* C26: the state of the store is equal, by the equality its loader passed,
\* to the snapshot of every Ready entry that read the store and is in the
\* registry (an entry that was revalidated is removed).
C26_NoLostStoreUpdate ==
  \A e \in EntryIds :
    (/\ entries[e].snap # Undef
     /\ Ready(e)
     /\ Reg(entries[e].loader, entries[e].key) = e)
      => C6_EqualToSnapshot(e, storeState)

\* ------------------------------------------------------------ C27
\* C27: no entry of a loader whose view was created with dispose "never" is
\* removed by a dispose timer.
C27_PolicyOfTheView ==
  \A e \in EntryIds :
    LoaderDef(world, entries[e].loader).dispose = "never" => ~entries[e].byTimer

\* ------------------------------------------------------------ C28
\* the entry the registry holds for (l, key) after the handler
C28_RegAfter(l, key) == IF hasGroup'[l] THEN MapGet(items'[l], key) ELSE 0

C29_SettlesSuperseded(e) ==
  /\ Len(log') > 0
  /\ log'[1].ev = "settle"
  /\ log'[1].a = entries[e].p0
  /\ entries[e].result.h \in {"val", "err"}

\* C29: when the promise of a computation settles, fulfilled or rejected,
\* after a later set has replaced the entry's result handle, the entry keeps
\* its data, error, loading flag, timer, handle and listeners, and nothing
\* is notified.
C29_SupersededHasNoEffect ==
  [][\A e \in EntryIds :
       C29_SettlesSuperseded(e)
         => /\ entries'[e] = entries[e]
            /\ Len(log') = 1]_vars

\* the loader promise was rejected after set(reducer), set(7) on the loading
\* entry: the entry still holds 7 and no error
C29_Witness ==
  \E e \in EntryIds :
    /\ log = <<Ev("settle", entries[e].p0, 0)>>
    /\ Len(entries[e].sets) = 2
    /\ entries[e].sets[1].f # "plain"
    /\ entries[e].sets[2].f = "plain"
    /\ entries[e].result = H("val", 7)
    /\ entries[e].data = 7
    /\ entries[e].error = Undef

\* ------------------------------------------------------------ C30
\* a change-listener of entry e was called in this step
C30_Fired(e) == \E i \in 1..Len(log') : log'[i].ev = "fire" /\ log'[i].a = e

\* entry e, whose get() was fulfilled and which a component listens to, is
\* given a reducer that is chained (the entry goes Pending again) and the
\* chain has resolved when the handler and its microtasks are done
C30_PendingAgainThenReady(e) ==
  /\ Len(log') > 0
  /\ log'[1].ev \in {"set", "cacheSet"}
  /\ entries[e].result.h = "val"
  /\ \E c \in Consumers : subs[c] = [e |-> e, k |-> "ui"]
  /\ Len(entries'[e].sets) = Len(entries[e].sets) + 1
  /\ entries'[e].sets[Len(entries'[e].sets)].pending
  /\ entries'[e].sets[Len(entries'[e].sets)].f \in {"inc", "dbl", "same"}
  /\ entries'[e].result.h = "p"
  /\ promises'[entries'[e].result.v].st = "ok"
  /\ ~entries'[e].loading

\* C30: when a ready entry goes Pending again through a chained reducer and
\* the chain resolves, the change-listeners are called if and only if the
\* resolved value is not the value the entry held before the update.
C30_ChangeOnResettle ==
  [][\A e \in EntryIds :
       C30_PendingAgainThenReady(e)
         => (C30_Fired(e) <=> Changed(entries[e].data, entries'[e].data))]_vars

\* ------------------------------------------------------------ C31
\* the data each component listening to e read when its listener was called
C31_Seen(e) == SelectSeq(log', LAMBDA x : x.ev = "fire" /\ x.a = e)
\* the components listening to e
C31_Listeners(e) == SelectSeq(entries[e].onChange, LAMBDA x : x.k = "ui")

\* x === y: NaN is identical to nothing, itself included
C31_Identical(x, y) == x = y /\ x # NaN

\* a plain value or a reducer is set on the Ready entry e and yields a value
C31_SetOnReady(e) ==
  /\ Len(log') > 0
  /\ log'[1].ev \in {"set", "cacheSet"}
  /\ Ready(e)
  /\ Len(entries'[e].sets) = Len(entries[e].sets) + 1
  /\ entries'[e].result.h = "val"

\* C31: a set on a Ready entry calls every listening component once, after
\* the new data is stored, when the new value is not identical (===) to the
\* stored one, and calls none when it is.
C31_SetNotifiesOnChange ==
  [][\A e \in EntryIds :
       C31_SetOnReady(e)
         => IF ~C31_Identical(entries'[e].data, entries[e].data)
            THEN /\ Len(C31_Seen(e)) = Len(C31_Listeners(e))
                 /\ \A i \in 1..Len(C31_Seen(e)) : C31_Seen(e)[i].b = entries'[e].data
            ELSE C31_Seen(e) = <<>>]_vars

\* a component was listening when set(v => v + 1) took a Ready entry from
\* 1 to 2, and read 2
C31_Witness ==
  \E e \in EntryIds :
    /\ log = <<Ev("set", e, 0), Ev("fire", e, 2)>>
    /\ entries[e].data = 2
    /\ entries[e].sets = <<[f |-> "inc", pending |-> FALSE]>>
    /\ ~entries[e].loading

\* set(v => v) on a Ready entry a component listens to called nobody
C31_WitnessSame ==
  \E e \in EntryIds, c \in Consumers :
    /\ log = <<Ev("set", e, 0)>>
    /\ subs[c] = [e |-> e, k |-> "ui"]
    /\ entries[e].sets = <<[f |-> "same", pending |-> FALSE]>>
    /\ entries[e].result.h = "val"

\* ------------------------------------------------------------ C32
\* get() of entry e was pending before the handler and is settled after it
C32_Settles(e) == Outcome(e).st = "pending" /\ Outcome(e)'.st # "pending"

\* C32: the listeners of onReady (the effects enqueued by use) are called
\* only in a step that takes the entry from Pending to Ready or Failed; such
\* a step calls each listener in the list once and leaves the list empty; an
\* entry created and settled in one step has called each of its listeners
\* once and holds none; and the settlement of a promise whose handle a set
\* has replaced calls none.
C32_ReadyListenersOneShot ==
  [][/\ \A e \in EntryIds :
          /\ entries'[e].acts > entries[e].acts => C32_Settles(e)
          /\ C32_Settles(e) =>
               /\ entries'[e].acts = entries[e].acts + Len(entries[e].onReady)
               /\ entries'[e].onReady = <<>>
          /\ (/\ Len(log') > 0
              /\ log'[1].ev = "settle"
              /\ log'[1].a = entries[e].p0
              /\ entries[e].result.h \in {"val", "err"})
               => entries'[e].acts = entries[e].acts
     /\ \A e \in (1..Len(entries')) \ EntryIds :
          IF Outcome(e)'.st = "pending"
          THEN entries'[e].acts = 0
          ELSE /\ entries'[e].acts = Len(LoaderDef(world, entries'[e].loader).uses)
               /\ entries'[e].onReady = <<>>]_vars

\* set(7) on a loading entry called its one listener; the loader promise
\* settled afterwards and called nothing
C32_Witness ==
  \E e \in EntryIds :
    /\ log = <<Ev("settle", entries[e].p0, 1)>>
    /\ entries[e].sets = <<[f |-> "plain", pending |-> TRUE]>>
    /\ Len(LoaderDef(world, entries[e].loader).uses) = 1
    /\ entries[e].acts = 1
    /\ entries[e].onReady = <<>>

\* ------------------------------------------------------------ C34
\* the listeners called at nesting depth want of notifyAndClear(), in order
RECURSIVE C34_At(_, _, _, _)
C34_At(seq, i, depth, want) ==
  IF i > Len(seq) THEN <<>>
  ELSE CASE seq[i] = "[" -> C34_At(seq, i + 1, depth + 1, want)
         [] seq[i] = "]" -> C34_At(seq, i + 1, depth - 1, want)
         [] OTHER -> (IF depth = want THEN <<seq[i]>> ELSE <<>>)
                        \o C34_At(seq, i + 1, depth, want)

\* C34: notifyAndClear() calls exactly the listeners that were subscribed
\* when it was called, each once and in subscription order; a
\* notifyAndClear() that one of them issues calls only what was subscribed
\* during the call (b, by the listener add); and when the call returns the
\* set holds nothing but b, which it does hold when add subscribed it and no
\* nested call followed, also if b was subscribed before: the set was
\* emptied before add ran.
C34_NotifyAndClear ==
  [][lsn'.op[1] = "notifyAndClear"
       => /\ C34_At(lsn'.called, 1, 0, 1) = lsn.listeners
          /\ \A d \in 2..4 : Range(C34_At(lsn'.called, 1, 0, d)) \subseteq {"b"}
          /\ Range(lsn'.listeners) \subseteq {"b"}
          /\ ("add" \in Range(lsn.listeners) /\ "nest" \notin Range(lsn.listeners))
               => lsn'.listeners = <<"b">>]_vars

\* add, nest and a were subscribed in this order: add subscribed b, the
\* nested call of nest called b, then a was called, once
C34_Witness ==
  /\ lsn.op[1] = "notifyAndClear"
  /\ lsn.called = <<"[", "add", "nest", "[", "b", "]", "a", "]">>
  /\ lsn.listeners = <<>>

\* b and add were subscribed: b was called once and is subscribed again
C34_WitnessKept ==
  /\ lsn.op[1] = "notifyAndClear"
  /\ lsn.called = <<"[", "b", "add", "]">>
  /\ lsn.listeners = <<"b">>

\* ------------------------------------------------------------ C33
\* C33: notify() calls exactly the listeners that were subscribed when it
\* was called, each once and in subscription order, whatever the listeners
\* subscribe or unsubscribe meanwhile.
C33_NotifyIsSnapshot ==
  [][lsn'.op[1] = "notify" => C34_At(lsn'.called, 1, 0, 0) = lsn.listeners]_vars

\* the entries revalidated during the handler, in order
C33_Revalidated == SelectSeq(log', LAMBDA x : x.ev = "revalidate")

\* the same in the cache: when set changes the data of entry a and notifies
\* its change-listeners, the entries revalidated are those whose use(cache)
\* listener was subscribed to a when the notification started
C33_SetCallsSubscribedOnly ==
  [][\A a \in EntryIds :
       (Len(log') > 0 /\ log'[1] = Ev("set", a, 0))
         => \A i \in 1..Len(C33_Revalidated) :
              \E x \in Range(entries[a].onChange) :
                x.k = "cache" /\ x.e = C33_Revalidated[i].a]_vars

\* ------------------------------------------------------------ C35
\* C35: a subscribe call runs the onSubscribe hook once if it adds the
\* listener to the set and not at all if the listener was already there; a
\* call of an unsubscribe function runs the onUnsubscribe hook once if it
\* takes the listener out of the set and not at all otherwise; no other
\* hook runs in either call.
C35_HooksFollowTheSet ==
  [][/\ lsn'.op[1] = "subscribe"
          => /\ lsn'.onSubscribe - lsn.onSubscribe
                  = IF lsn'.listeners # lsn.listeners THEN 1 ELSE 0
             /\ lsn'.onUnsubscribe = lsn.onUnsubscribe
     /\ lsn'.op[1] = "unsubscribe"
          => /\ lsn'.onUnsubscribe - lsn.onUnsubscribe
                  = IF lsn'.listeners # lsn.listeners THEN 1 ELSE 0
             /\ lsn'.onSubscribe = lsn.onSubscribe]_vars

\* ------------------------------------------------------------ C36
\* C36: the registry holds no loader whose map of entries is empty.
C36_NoEmptyGroup ==
  \A l \in Loaders : hasGroup[l] => items[l] # <<>>

\* ------------------------------------------------------------ C37
\* revalidate() of entry e is what the handler of this step calls
C37_Revalidates(e) == Len(log') > 1 /\ log'[1] = Ev("entryRevalidate", e, 0)

\* entry d is registered, in the state it was in, with the listeners and the
\* timer it had
C37_Untouched(d) ==
  /\ entries'[d] = entries[d]
  /\ (C28_RegAfter(entries[d].loader, entries[d].key) = d)
       = (Reg(entries[d].loader, entries[d].key) = d)

C37_ReadByNew(d) ==
  \E x \in (1..Len(entries')) \ EntryIds : entries'[x].reads = d

C38_Count(Test(_)) == Cardinality({i \in 1..Len(log') : Test(log'[i])})

\* how many listeners of kind k entry src had when the handler began
C38_Had(src, k) ==
  IF src \in EntryIds
  THEN Cardinality({i \in 1..Len(entries[src].onChange) : entries[src].onChange[i].k = k})
  ELSE 0

\* C38: a handler that calls revalidate() of an entry runs to its end, with
\* every revalidate() called from a change-listener it fires inside it; in it
\* each entry is removed at most once and each change-listener is called at
\* most once, whether it is the listener of a use(cache), of a consumer that
\* requests the entry again or of a component.
C38_RevalidateOnce ==
  [][(Len(log') > 0 /\ log'[1].ev = "entryRevalidate")
       => /\ \A x \in 1..Len(entries') :
               C38_Count(LAMBDA v : v.ev = "remove" /\ v.a = x) <= 1
          /\ \A i \in 1..Len(log') :
               log'[i].ev = "listener"
                 => C38_Count(LAMBDA v : v = log'[i]) = 1
          /\ \A x \in 1..Len(entries') :
               /\ C38_Count(LAMBDA v : v.ev = "fire" /\ v.a = x) <= C38_Had(x, "ui")
               /\ C38_Count(LAMBDA v : v.ev = "gotOnRevalidate" /\ v.a = x)
                    <= C38_Had(x, "rereq")]_vars

\* two Ready entries read each other, one of them twice; revalidate() of the
\* other called both listeners of the first, so that revalidate() of the
\* first ran twice, and each of the two entries was removed once
C38_Witness ==
  \E a, b \in EntryIds :
    /\ a # b
    /\ Len(log) > 0 /\ log[1] = Ev("entryRevalidate", a, 0)
    /\ entries[a].reads = b /\ entries[b].reads = a
    /\ entries[a].removed /\ entries[b].removed
    /\ Cardinality({i \in 1..Len(log) : log[i] = Ev("revalidate", b, 0)}) = 2
    /\ Cardinality({i \in 1..Len(log) : log[i].ev = "remove" /\ log[i].a = b}) = 1
    /\ Cardinality({i \in 1..Len(log) : log[i].ev = "listener" /\ log[i].a = a}) = 2

\* ------------------------------------------------------------ C39
\* C39: one broadcast on the tag bus revalidates each entry that existed when
\* it began at most once, and revalidates no entry that was created, and
\* subscribed its tag listener, while the broadcast was going on.
C39_BroadcastIsSnapshot ==
  [][(Len(log') > 0 /\ log'[1].ev = "tagRevalidate")
       => /\ \A e \in EntryIds : RevalCount(log', e) <= 1
          /\ \A x \in (1..Len(entries')) \ EntryIds : RevalCount(log', x) = 0]_vars

\* ------------------------------------------------------------ C40
RECURSIVE C40_Same(_, _)
\* x and y differ at most by the order of record keys and by record keys
\* whose value is null, undefined or NaN
C40_Same(x, y) ==
  CASE x.t = "obj" /\ y.t = "obj" ->
         LET present(v) ==
               {i \in 1..Len(v.kids) : v.kids[i].v.t \notin {"undef", "null", "nan"}}
         IN /\ {x.kids[i].k : i \in present(x)} = {y.kids[j].k : j \in present(y)}
            /\ \A i \in present(x), j \in present(y) :
                 x.kids[i].k = y.kids[j].k => C40_Same(x.kids[i].v, y.kids[j].v)
    [] x.t = "arr" /\ y.t = "arr" ->
         /\ Len(x.kids) = Len(y.kids)
         /\ \A i \in 1..Len(x.kids) : C40_Same(x.kids[i].v, y.kids[i].v)
    [] OTHER -> x = y

\* C40: getKey returns different strings for two inputs that differ other
\* than by the order of record keys or by record keys with a nil-like value.
C40_NoCollision ==
  (keyResult # <<>> /\ ~C40_Same(keyProps[1], keyProps[2]))
    => keyResult[1] # keyResult[2]

\* the collision of arrays that differ in nesting: [[1, 2]] and [1, 2]
C40_ArraysCollide ==
  /\ keyResult # <<>>
  /\ keyProps[1] = VArr(<<VArr(<<VNum(1), VNum(2)>>)>>)
  /\ keyProps[2] = VArr(<<VNum(1), VNum(2)>>)
  /\ keyResult[1] = keyResult[2]

\* the collision of a record that holds an empty record with the empty
\* record: {c: {}, a: undefined} and {}
C40_EmptyRecordDropped ==
  /\ keyResult # <<>>
  /\ keyProps[1] = VObj(<<KV("c", VObj(<<>>)), KV("a", VUndef)>>)
  /\ keyProps[2] = VObj(<<>>)
  /\ keyResult[1] = keyResult[2]

====
